---- MODULE Spec2Model ----
(***************************************************************************)
(* BRVM bot: the technical-analysis pipeline of brvm_bot_ultimate.py       *)
(* (load_brvm_data, calculer_rsi, calculer_moyennes_mobiles,               *)
(* calculer_score, generer_signal, AnalyseurBRVM.analyser) and the         *)
(* portfolio simulator of app.py (tab4), driven by the Streamlit script    *)
(* run with its cached charger_donnees.                                    *)
(*                                                                         *)
(* Numbers.  Closes are integers (FCFA).  Every float the code computes    *)
(* from them is modelled exactly as an extended rational <<n, d>>, d >= 0: *)
(* d > 0 is the number n/d, <<1,0>> is +inf, <<-1,0>> is -inf and <<0,0>>  *)
(* is NaN (what numpy's float64 division by zero yields).  Values stored   *)
(* in a record after round(x, k) are integers in units of 10^-k.           *)
(***************************************************************************)
EXTENDS Integers, Sequences, FiniteSets, TLC

VARIABLES
    brvm_data,    \* the CSV files of brvm_data/: file name -> rows [d, c] in file order
    cache,        \* st.cache_data of charger_donnees: capital -> cached return value
    capital,      \* sidebar value of the last script run
    df_analysis,  \* what the last script run got from charger_donnees(capital)
    tab4,         \* what tab4 (portfolio simulator) computed in the last script run
    appel,        \* a direct call of a pure helper: its arguments and its result
    resultat_de   \* what charger_donnees computes on this installation, as far as a
                  \* run has shown it: capital -> its outcome on brvm_data

vars == <<brvm_data, cache, capital, df_analysis, tab4, appel, resultat_de>>

(***************************************************************************)
(* Program constants                                                       *)
(***************************************************************************)
STOP_LOSS_PCT == -5
TAKE_PROFIT_PCT == 10
POSITION_SIZE_PCT == 10
TRAILING_STOP_PCT == 97
MIN_POINTS == 50
RSI_PERIOD == 14
MM_COURT == 20
MM_LONG == 50
VAR_JOURS == 14

(***************************************************************************)
(* Extended rationals (float64 values of the code)                         *)
(***************************************************************************)
NaN == <<0, 0>>
PInf == <<1, 0>>
NInf == <<-1, 0>>

Sgn(k) == IF k > 0 THEN 1 ELSE IF k < 0 THEN -1 ELSE 0

Abs(k) == IF k < 0 THEN -k ELSE k

Num(k) == <<k, 1>>

\* pd.notna(x)
notna(x) == x # NaN

RECURSIVE Gcd(_, _)
Gcd(a, b) == IF b = 0 THEN a ELSE Gcd(b, a % b)

\* one representation per value: lowest terms, and only the sign of a non-finite value
Norm(x) ==
    IF x[2] = 0 THEN <<Sgn(x[1]), 0>>
    ELSE LET g == Gcd(Abs(x[1]), x[2]) IN <<x[1] \div g, x[2] \div g>>

\* the number n/d, d > 0
Frac(n, d) == Norm(<<n, d>>)

Add(x, y) ==
    IF x[2] = 0 /\ y[2] = 0
    THEN (IF Sgn(x[1]) = Sgn(y[1]) THEN Norm(x) ELSE NaN)
    ELSE Norm(<<x[1] * y[2] + y[1] * x[2], x[2] * y[2]>>)

Neg(x) == <<-x[1], x[2]>>

Sub(x, y) == Add(x, Neg(y))

Mul(x, y) == Norm(<<x[1] * y[1], x[2] * y[2]>>)

\* float64 division as numpy does it: x/0 is +-inf, 0/0 is NaN, x/inf is 0
Div(x, y) ==
    IF x = NaN \/ y = NaN THEN NaN
    ELSE IF x[2] = 0 /\ y[2] = 0 THEN NaN
    ELSE IF y[1] = 0 THEN <<Sgn(x[1]), 0>>
    ELSE Norm(<<x[1] * y[2] * Sgn(y[1]), x[2] * Abs(y[1])>>)

\* x < y on floats: every comparison with NaN is False
Lt(x, y) ==
    IF x = NaN \/ y = NaN THEN FALSE
    ELSE IF x[2] = 0 /\ y[2] = 0 THEN x[1] < y[1]
    ELSE x[1] * y[2] < y[1] * x[2]

Gt(x, y) == Lt(y, x)

\* floor of p/q, q > 0
Floor(p, q) == IF p >= 0 THEN p \div q ELSE -((-p + q - 1) \div q)

\* numpy.round / rint of p/q to an integer, q > 0: halves go to the even neighbour
RoundHalfEven(p, q) ==
    LET f == Floor(p, q)
        r == 2 * (p - f * q)
    IN  IF r > q THEN f + 1
        ELSE IF r < q THEN f
        ELSE IF f % 2 = 0 THEN f ELSE f + 1

\* int(x * scale) in place of round(x, k): the digits beyond k are cut off
Round_tronque(x, scale) ==
    IF x[2] = 0 THEN x ELSE <<Floor(x[1] * scale, x[2]), scale>>

\* round(x, k) with scale = 10^k, kept in units of 1/scale; inf and NaN stay as they are
Round(x, scale) ==
    IF x[2] = 0 THEN x ELSE <<RoundHalfEven(x[1] * scale, x[2]), scale>>

(***************************************************************************)
(* Indicators (brvm_bot_ultimate.py, "INDICATEURS TECHNIQUES")             *)
(***************************************************************************)
RECURSIVE Somme(_, _, _)
\* sum of the integer sequence s over positions a..b
Somme(s, a, b) == IF a > b THEN 0 ELSE s[b] + Somme(s, a, b - 1)

\* prices.diff() at position i >= 2 (position 1 is NaN)
delta(prices, i) == prices[i] - prices[i - 1]

\* delta.clip(lower=0)
gain(prices, i) == IF delta(prices, i) > 0 THEN delta(prices, i) ELSE 0

\* -delta.clip(upper=0)
loss(prices, i) == IF delta(prices, i) < 0 THEN -delta(prices, i) ELSE 0

RECURSIVE SommeGain(_, _, _)
SommeGain(prices, a, b) ==
    IF a > b THEN 0 ELSE gain(prices, b) + SommeGain(prices, a, b - 1)

RECURSIVE SommeLoss(_, _, _)
SommeLoss(prices, a, b) ==
    IF a > b THEN 0 ELSE loss(prices, b) + SommeLoss(prices, a, b - 1)

\* the rolling mean that asks for one value more than the window holds
rolling_mean_retard(somme, i, window, trou) ==
    IF i - window > trou THEN Frac(somme, window) ELSE NaN

\* x.rolling(window).mean() at position i of a series whose first `trou` values are NaN
rolling_mean(somme, i, window, trou) ==
    IF i - window + 1 > trou THEN Frac(somme, window) ELSE NaN

\* the quotient taken the other way round, avg_loss / avg_gain
calculer_rsi_inverse(prices, period) ==
    [i \in 1..Len(prices) |->
        LET avg_gain == rolling_mean(SommeGain(prices, i - period + 1, i), i, period, 1)
            avg_loss == rolling_mean(SommeLoss(prices, i - period + 1, i), i, period, 1)
            rs == Div(avg_loss, avg_gain)
        IN  Sub(Num(100), Div(Num(100), Add(Num(1), rs)))]

\* calculer_rsi(prices, period): one value per observation
calculer_rsi(prices, period) ==
    [i \in 1..Len(prices) |->
        LET avg_gain == rolling_mean(SommeGain(prices, i - period + 1, i), i, period, 1)
            avg_loss == rolling_mean(SommeLoss(prices, i - period + 1, i), i, period, 1)
            rs == Div(avg_gain, avg_loss)
        IN  Sub(Num(100), Div(Num(100), Add(Num(1), rs)))]

\* calculer_moyennes_mobiles(prices): mm20 and mm50, one value per observation
calculer_moyennes_mobiles(prices) ==
    [mm20 |-> [i \in 1..Len(prices) |->
                 rolling_mean(Somme(prices, i - MM_COURT + 1, i), i, MM_COURT, 0)],
     mm50 |-> [i \in 1..Len(prices) |->
                 rolling_mean(Somme(prices, i - MM_LONG + 1, i), i, MM_LONG, 0)]]

(***************************************************************************)
(* Scoring and signal                                                      *)
(***************************************************************************)
\* the RSI rule with <= where the code has <
RsiPoints_inclus(rsi) ==
    IF notna(rsi)
    THEN (IF ~Gt(rsi, Num(30)) THEN 3
          ELSE IF ~Gt(rsi, Num(40)) THEN 2
          ELSE IF ~Gt(rsi, Num(50)) THEN 1
          ELSE 0)
    ELSE 0

RsiPoints(rsi) ==
    IF notna(rsi)
    THEN (IF Lt(rsi, Num(30)) THEN 3
          ELSE IF Lt(rsi, Num(40)) THEN 2
          ELSE IF Lt(rsi, Num(50)) THEN 1
          ELSE 0)
    ELSE 0

MMPoints(mm20, mm50, prix) ==
    IF notna(mm20) /\ notna(mm50)
    THEN (IF Gt(mm20, mm50) THEN 2 ELSE 0) + (IF Gt(prix, mm20) THEN 1 ELSE 0)
    ELSE 0

\* the return rule with 4 points for its top tier, the "0-4 points" of the comment
VariationPoints_quatre(variation) ==
    IF Gt(variation, Num(5)) THEN 4
    ELSE IF Gt(variation, Num(2)) THEN 2
    ELSE IF Gt(variation, Num(0)) THEN 1
    ELSE IF Lt(variation, Num(-5)) THEN -1
    ELSE 0

VariationPoints(variation) ==
    IF Gt(variation, Num(5)) THEN 3
    ELSE IF Gt(variation, Num(2)) THEN 2
    ELSE IF Gt(variation, Num(0)) THEN 1
    ELSE IF Lt(variation, Num(-5)) THEN -1
    ELSE 0

Max(a, b) == IF a >= b THEN a ELSE b

Min(a, b) == IF a <= b THEN a ELSE b

\* calculer_score without its last line, max(0, min(10, score))
calculer_score_sans_bornes(rsi, mm20, mm50, prix, variation) ==
    RsiPoints(rsi) + MMPoints(mm20, mm50, prix) + VariationPoints(variation)

\* calculer_score(rsi, mm20, mm50, prix, variation)
calculer_score(rsi, mm20, mm50, prix, variation) ==
    LET score == RsiPoints(rsi) + MMPoints(mm20, mm50, prix) + VariationPoints(variation)
    IN  Max(0, Min(10, score))

\* generer_signal with > where the code has >=
generer_signal_strict(score) ==
    IF score > 7 THEN "ACHAT FORT"
    ELSE IF score > 5 THEN "ACHAT"
    ELSE IF score > 3 THEN "SURVEILLER"
    ELSE "ATTENTE"

\* generer_signal(score).  The code puts an emoji before each word (a flame before
\* ACHAT FORT, and so on); tab4 compares against the same strings, so the words alone are kept.
generer_signal(score) ==
    IF score >= 7 THEN "ACHAT FORT"
    ELSE IF score >= 5 THEN "ACHAT"
    ELSE IF score >= 3 THEN "SURVEILLER"
    ELSE "ATTENTE"

\* expliquer_signal(row) for a record of analyser, whose RSI is kept in tenths, whose
\* MM20 and MM50 are whole numbers (never NaN: analyser stores 0 for NaN) and whose
\* Var_14j_% is a fraction: the explanations in the order they are joined, each by its
\* opening words (the code puts an emoji before them and a detail after).
expliquer_signal(row) ==
    LET explications ==
            (IF row.RSI < 300 THEN <<"RSI très bas">>
             ELSE IF row.RSI < 400 THEN <<"RSI bas">>
             ELSE IF row.RSI > 700 THEN <<"RSI élevé">>
             ELSE <<>>)
            \o (IF row.MM20 > row.MM50 THEN <<"Tendance haussière confirmée">>
                ELSE <<"Tendance baissière ou neutre">>)
            \o (IF Gt(row.Var_14j, Num(5)) THEN <<"Forte hausse récente">>
                ELSE IF Gt(row.Var_14j, Num(2)) THEN <<"Hausse modérée">>
                ELSE IF Lt(row.Var_14j, Num(-5)) THEN <<"Forte baisse récente">>
                ELSE <<>>)
    IN  IF explications = <<>> THEN <<"Marché neutre">> ELSE explications

(***************************************************************************)
(* brvm_data/: file names and contents                                     *)
(***************************************************************************)
\* recup.py's ticker list; a file name "BOAB.bj.csv" is kept as its dot-separated parts
TICKERS_BRVM_COMPLET ==
    << <<"BOAB", "bj">>, <<"BOABF", "bf">>, <<"BOAM", "ml">>, <<"BOAN", "ne">>,
       <<"BOAS", "sn">>, <<"BICC", "ci">>, <<"BNBC", "ci">>, <<"ECOC", "ci">>,
       <<"ETIT", "tg">>, <<"SGBC", "ci">>, <<"SIBC", "ci">>, <<"ABJC", "ci">>,
       <<"CABC", "ci">>, <<"CFAC", "ci">>, <<"NEIC", "ci">>, <<"NTLC", "ci">>,
       <<"ONTBF", "bf">>, <<"PALC", "ci">>, <<"PRSC", "ci">>, <<"SAFC", "ci">>,
       <<"SCRC", "ci">>, <<"SDCC", "ci">>, <<"SIVC", "ci">>, <<"SLBC", "ci">>,
       <<"SMBC", "ci">>, <<"SNTS", "sn">>, <<"SOGC", "ci">>, <<"SPHC", "ci">>,
       <<"STAC", "ci">>, <<"STBC", "ci">>, <<"TTLS", "sn">>, <<"UNLC", "ci">>,
       <<"UNXC", "ci">>, <<"CBIBF", "bf">>, <<"FTSC", "ci">>, <<"NSBC", "ci">>,
       <<"ORGT", "tg">>, <<"SHEC", "ci">> >>

\* the symbols in the order sort_values puts them (strings compare alphabetically)
ORDRE_ALPHA ==
    << "ABJC", "BICC", "BNBC", "BOAB", "BOABF", "BOAM", "BOAN", "BOAS", "CABC",
       "CBIBF", "CFAC", "ECOC", "ETIT", "FTSC", "NEIC", "NSBC", "NTLC", "ONTBF",
       "ORGT", "PALC", "PRSC", "SAFC", "SCRC", "SDCC", "SGBC", "SHEC", "SIBC",
       "SIVC", "SLBC", "SMBC", "SNTS", "SOGC", "SPHC", "STAC", "STBC", "TTLS",
       "UNLC", "UNXC" >>

\* csv_file.stem.split('.')[0].upper(): the names above are upper case already
ticker_de(fichier) == fichier[1]

(***************************************************************************)
(* Bounds and inputs                                                       *)
(***************************************************************************)
\* how many files of TICKERS_BRVM_COMPLET a download run may have written
NbValeurs == 12

\* a series has between MIN_POINTS - 1 and MIN_POINTS + MaxExtra rows
MaxExtra == 1

Capitaux == {1000000, 20000000}

Strategies == {"Seulement ACHAT FORT", "ACHAT FORT + ACHAT", "Tous signaux positifs"}

Longueurs == (MIN_POINTS - 1)..(MIN_POINTS + MaxExtra)

\* A series of n closes: a plateau at a, one close at u, thirteen closes at y, a last
\* close at z.  The last 14 price changes are y - u, twelve zeros and z - y.
Cours(f, i) ==
    IF i <= f.n - 15 THEN f.a
    ELSE IF i = f.n - 14 THEN f.u
    ELSE IF i < f.n THEN f.y
    ELSE f.z

\* The rows of the CSV file in file order: chronological, newest first, or
\* chronological with the last two rows carrying the same date.
Lignes(f) ==
    [i \in 1..f.n |->
        IF f.ordre = "inverse" THEN [d |-> f.n + 1 - i, c |-> Cours(f, f.n + 1 - i)]
        ELSE IF f.ordre = "doublon" /\ i = f.n THEN [d |-> f.n - 1, c |-> Cours(f, i)]
        ELSE [d |-> i, c |-> Cours(f, i)]]

Forme(n, a, u, y, z, ordre) == [n |-> n, a |-> a, u |-> u, y |-> y, z |-> z, ordre |-> ordre]

\* the series a single uploaded file may hold
Formes ==
    { f \in [n : Longueurs, a : {100, 200, 300}, u : {140, 200, 260, 270}, y : {200},
             z : {0, 4, 10, 188, 190, 200, 204, 206, 210, 212, 230, 250},
             ordre : {"chrono", "inverse", "doublon"}] :
        \/ f.n = MIN_POINTS /\ f.ordre = "chrono"
        \/ f.a = 200 /\ f.u = 260 }

\* what the quotes API returns for the i-th ticker of the list
Marche ==
    << Forme(50, 100, 140, 200, 188, "chrono"), Forme(50, 100, 140, 200, 206, "chrono"),
       Forme(51, 100, 260, 200, 212, "chrono"), Forme(50, 200, 140, 200, 188, "chrono"),
       Forme(49, 100, 260, 200, 212, "chrono"), Forme(50, 100, 260, 200, 204, "chrono"),
       Forme(50, 100, 140, 200, 190, "chrono"), Forme(50, 100, 260, 200, 206, "chrono"),
       Forme(50, 200, 140, 200, 200, "chrono"), Forme(50, 100, 140, 200, 212, "chrono"),
       Forme(50, 100, 140, 200, 204, "chrono"), Forme(50, 100, 200, 200, 204, "chrono"),
       Forme(50, 200, 260, 200, 204, "chrono"), Forme(50, 200, 200, 200, 10, "chrono") >>

\* brvm_data/ after a download run that stopped after m tickers
Telecharge(m) ==
    [fichier \in {TICKERS_BRVM_COMPLET[i] : i \in 1..m} |->
        Lignes(Marche[CHOOSE i \in 1..m : TICKERS_BRVM_COMPLET[i] = fichier])]

\* brvm_data/ holding one uploaded file
Televerse(f) == [fichier \in {TICKERS_BRVM_COMPLET[26]} |-> Lignes(f)]

\* an uploaded series whose last close is above 10 % of the smaller capital
FormesCheres == {Forme(MIN_POINTS, 200, 260, 200, 1250000, "chrono")}

\* brvm_data/ after a download run of m tickers and the upload of one more file
TelechargePuisTeleverse(m, f) ==
    [fichier \in DOMAIN Telecharge(m) \cup DOMAIN Televerse(f) |->
        IF fichier \in DOMAIN Televerse(f) THEN Televerse(f)[fichier]
        ELSE Telecharge(m)[fichier]]

\* A series of n closes that stays at `depart` and then moves by `pas` at each of its
\* last k observations: a steady fall (pas < 0), a steady rise (pas > 0) or no
\* move at all (pas = 0).
Rampe(n, depart, pas, k) ==
    [i \in 1..n |-> [d |-> i, c |-> IF i <= n - k THEN depart ELSE depart + pas * (i - (n - k))]]

\* the steady series a single uploaded file may hold
Rampes ==
    { Rampe(n, t[1], t[2], k) :
        n \in Longueurs, k \in {RSI_PERIOD, MIN_POINTS - 2},
        t \in {<<1000, -2>>, <<300, -5>>, <<100, 3>>, <<0, 0>>} }

\* brvm_data/ holding one uploaded file of a steady series
TeleverseRampe(rows) == [fichier \in {TICKERS_BRVM_COMPLET[26]} |-> rows]

Dossiers ==
    {Telecharge(m) : m \in 0..NbValeurs}
        \cup {Televerse(f) : f \in Formes}
        \cup {TelechargePuisTeleverse(m, f) : m \in 0..NbValeurs, f \in FormesCheres}
        \cup {TeleverseRampe(rows) : rows \in Rampes}

(***************************************************************************)
(* Sequences and sorting                                                   *)
(***************************************************************************)
Retirer(s, i) == [j \in 1..(Len(s) - 1) |-> IF j < i THEN s[j] ELSE s[j + 1]]

RECURSIVE Arrangements(_)
\* every arrangement of the elements of s
Arrangements(s) ==
    IF Len(s) <= 1 THEN {s}
    ELSE UNION { { <<s[i]>> \o p : p \in Arrangements(Retirer(s, i)) } : i \in 1..Len(s) }

Croissant(rows, strict) ==
    \A i \in 1..(Len(rows) - 1) :
        rows[i].d < rows[i + 1].d \/ (~strict /\ rows[i].d = rows[i + 1].d)

\* a stable sort on the date: rows of equal date keep their order.  The row at
\* position i goes to the position that counts the rows of an earlier date and the rows
\* of the same date up to i.
TriStableParDate(rows) ==
    IF Croissant(rows, FALSE) THEN rows
    ELSE LET rang == [i \in DOMAIN rows |->
                         Cardinality({j \in DOMAIN rows :
                             \/ rows[j].d < rows[i].d
                             \/ rows[j].d = rows[i].d /\ j <= i})]
         IN  [k \in DOMAIN rows |-> rows[CHOOSE i \in DOMAIN rows : rang[i] = k]]

RECURSIVE sort_values_Date(_)
\* DataFrame.sort_values('Date') with the default kind='quicksort', which is not a
\* stable sort: rows of equal date may come out in any order.  The set of outcomes:
\* the rows in date order, those of the first repeated date in every arrangement,
\* followed by every outcome for the rows of a later date.
sort_values_Date(rows) ==
    LET t == TriStableParDate(rows)
    IN  IF Croissant(t, TRUE) THEN {t}
        ELSE LET k == CHOOSE i \in 1..(Len(t) - 1) :
                          /\ t[i].d = t[i + 1].d
                          /\ \A j \in 1..(i - 1) : t[j].d < t[j + 1].d
                 Egale(r) == r.d = t[k].d
                 Apres(r) == r.d > t[k].d
             IN  { SubSeq(t, 1, k - 1) \o p \o r :
                       p \in Arrangements(SelectSeq(t, Egale)),
                       r \in sort_values_Date(SelectSeq(t, Apres)) }

RECURSIVE sort_values_Score(_, _)
\* DataFrame.sort_values('Score', ascending=False), again with kind='quicksort':
\* descending scores, records of equal score in any order.  The set of outcomes,
\* built from the highest score s downwards.
sort_values_Score(recs, s) ==
    IF s < 0 THEN {<<>>}
    ELSE LET Egal(r) == r.Score = s
         IN  { p \o r : p \in Arrangements(SelectSeq(recs, Egal)),
                        r \in sort_values_Score(recs, s - 1) }

RECURSIVE Concat(_, _)
\* pd.concat of the frames of `fichiers` (a set), in some directory order
Concat(dossier, fichiers) ==
    IF fichiers = {} THEN <<>>
    ELSE LET f == CHOOSE x \in fichiers : TRUE
         IN  dossier[f] \o Concat(dossier, fichiers \ {f})

(***************************************************************************)
(* load_brvm_data                                                          *)
(***************************************************************************)
None == [etat |-> "None"]

\* The merged frame, sorted by ['Valeur', 'Date']: one group of rows per Valeur, the
\* groups in alphabetical order.  None when the directory holds no CSV file.
load_brvm_data(dossier) ==
    IF DOMAIN dossier = {} THEN None
    ELSE LET valeurs == {ticker_de(f) : f \in DOMAIN dossier}
             Present(v) == v \in valeurs
             Groupe(v) ==
                 [Valeur |-> v,
                  lignes |-> TriStableParDate(
                                Concat(dossier, {f \in DOMAIN dossier : ticker_de(f) = v}))]
             ordre == SelectSeq(ORDRE_ALPHA, Present)
         IN  [etat |-> "ok", groupes |-> [i \in 1..Len(ordre) |-> Groupe(ordre[i])]]

(***************************************************************************)
(* AnalyseurBRVM.analyser                                                  *)
(***************************************************************************)
\* round(x) in place of int(x): the nearest integer, which may lie above x
Tronquer_arrondi(x) == RoundHalfEven(x[1], x[2])

\* int(x) of a finite float: truncation towards zero
Tronquer(x) == IF x[1] >= 0 THEN x[1] \div x[2] ELSE -((-x[1]) \div x[2])

\* the budget with 1 + pct / 100, the factor of the stop_loss and take_profit lines
position_size_facteur(cap) == Frac(cap * (100 + POSITION_SIZE_PCT), 100)

\* position_size = self.capital * (self.position_size_pct / 100)
position_size(cap) == Frac(cap * POSITION_SIZE_PCT, 100)

\* abs(gain_potentiel / perte_potentielle) without the test of the divisor
ratio_risk_reward_sans_garde(gain_potentiel, perte_potentielle) ==
    LET q == Div(gain_potentiel, perte_potentielle) IN <<Abs(q[1]), q[2]>>

\* ratio_risk_reward = abs(gain / perte) if perte_potentielle != 0 else 0
ratio_risk_reward(gain_potentiel, perte_potentielle) ==
    IF perte_potentielle[1] # 0
    THEN (LET q == Div(gain_potentiel, perte_potentielle) IN <<Abs(q[1]), q[2]>>)
    ELSE Num(0)

\* The body of the loop for one Valeur whose rows, sorted by date, are valeur_data
\* (at least MIN_POINTS of them): the record appended to resultats, or the
\* exception int() raises on a quotient that is not finite.
analyser_valeur(valeur, valeur_data, cap) ==
    LET n == Len(valeur_data)
        Close == [i \in 1..n |-> valeur_data[i].c]
        prix_actuel == Close[n]
        date_actuelle == valeur_data[n].d
        rsi_actuel == calculer_rsi(Close, RSI_PERIOD)[n]
        mm == calculer_moyennes_mobiles(Close)
        mm20_actuel == mm.mm20[n]
        mm50_actuel == mm.mm50[n]
        prix_14j == Close[n + 1 - VAR_JOURS]
        variation ==
            IF n >= VAR_JOURS
            THEN Mul(Div(Num(prix_actuel - prix_14j), Num(prix_14j)), Num(100))
            ELSE Num(0)
        score == calculer_score(rsi_actuel, mm20_actuel, mm50_actuel,
                                Num(prix_actuel), variation)
        signal == generer_signal(score)
        stop_loss == Frac(prix_actuel * (100 + STOP_LOSS_PCT), 100)
        take_profit == Frac(prix_actuel * (100 + TAKE_PROFIT_PCT), 100)
        trailing_stop == Frac(prix_actuel * TRAILING_STOP_PCT, 100)
        quotient == Div(position_size(cap), Num(prix_actuel))
        nb_actions == Tronquer(quotient)
        montant == nb_actions * prix_actuel
        gain_potentiel == Mul(Sub(take_profit, Num(prix_actuel)), Num(nb_actions))
        perte_potentielle == Mul(Sub(Num(prix_actuel), stop_loss), Num(nb_actions))
        ratio == ratio_risk_reward(gain_potentiel, perte_potentielle)
    IN  IF quotient = NaN THEN [exception |-> "ValueError"]
        ELSE IF quotient[2] = 0 THEN [exception |-> "OverflowError"]
        ELSE [exception |-> "",
              ligne |->
                [Valeur |-> valeur,
                 Prix |-> prix_actuel,
                 RSI |-> IF notna(rsi_actuel) THEN Round(rsi_actuel, 10)[1] ELSE 0,
                 MM20 |-> IF notna(mm20_actuel) THEN Round(mm20_actuel, 1)[1] ELSE 0,
                 MM50 |-> IF notna(mm50_actuel) THEN Round(mm50_actuel, 1)[1] ELSE 0,
                 Var_14j |-> Round(variation, 100),
                 Score |-> score,
                 Signal |-> signal,
                 Stop_Loss |-> Round(stop_loss, 1)[1],
                 Take_Profit |-> Round(take_profit, 1)[1],
                 Trailing_Stop |-> Round(trailing_stop, 1)[1],
                 Nb_Actions |-> nb_actions,
                 Montant_FCFA |-> montant,
                 Gain_Potentiel |-> Round(gain_potentiel, 1)[1],
                 Perte_Potentielle |-> Round(perte_potentielle, 1)[1],
                 Ratio_RR |-> Round(ratio, 100),
                 Date_Analyse |-> date_actuelle]]

\* the length test that lets a Valeur into the analysis
assez_de_points(valeur_data) == Len(valeur_data) >= MIN_POINTS

RECURSIVE boucle_valeurs(_, _, _)
\* The for loop over df['Valeur'].unique() from group i on: the possible outcomes,
\* each the list resultats or the exception that ended the loop.
boucle_valeurs(groupes, i, cap) ==
    IF i > Len(groupes) THEN {[exception |-> "", resultats |-> <<>>]}
    ELSE IF ~assez_de_points(groupes[i].lignes) THEN boucle_valeurs(groupes, i + 1, cap)
    ELSE UNION {
           LET r == analyser_valeur(groupes[i].Valeur, t, cap)
           IN  IF r.exception # "" THEN {[exception |-> r.exception, resultats |-> <<>>]}
               ELSE { IF suite.exception # "" THEN suite
                      ELSE [exception |-> "", resultats |-> <<r.ligne>> \o suite.resultats] :
                      suite \in boucle_valeurs(groupes, i + 1, cap) } :
           t \in sort_values_Date(groupes[i].lignes) }

\* results_df.sort_values(...) whose result is not assigned back: the order is kept
trier_resultats_oublie(resultats) == {resultats}

\* the final ordering of the collected records
trier_resultats(resultats) == sort_values_Score(resultats, 10)

\* AnalyseurBRVM(capital=cap).analyser(df): the possible outcomes.  An empty
\* resultats makes an empty DataFrame, on which sort_values('Score') raises KeyError.
analyser(df, cap) ==
    UNION {
      IF b.exception # "" THEN {[etat |-> "exception", exception |-> b.exception]}
      ELSE IF b.resultats = <<>> THEN {[etat |-> "exception", exception |-> "KeyError"]}
      ELSE { [etat |-> "ok", lignes |-> l] : l \in trier_resultats(b.resultats) } :
      b \in boucle_valeurs(df.groupes, 1, cap) }

\* charger_donnees(capital) without its cache: (None, None) or (df, resultats)
charger_donnees(dossier, cap) ==
    LET df == load_brvm_data(dossier)
    IN  IF df = None THEN {None} ELSE analyser(df, cap)

(***************************************************************************)
(* app.py, tab4: the portfolio simulator                                   *)
(***************************************************************************)
\* Signal == 'ACHAT' in place of str.contains: the strong buys are left out
contient_ACHAT_egal(signal) == signal = "ACHAT"

\* Signal.str.contains('ACHAT')
contient_ACHAT(signal) == signal \in {"ACHAT FORT", "ACHAT"}

\* the strategy filter
selectionner(df, strategie) ==
    LET Choisi(row) ==
            IF strategie = "Seulement ACHAT FORT" THEN row.Signal = "ACHAT FORT"
            ELSE IF strategie = "ACHAT FORT + ACHAT" THEN contient_ACHAT(row.Signal)
            ELSE row.Score >= 3
    IN  SelectSeq(df, Choisi)

\* a pass that takes over the size the analyser stored in the row
position_analyseur(row, budget) ==
    LET nb_actions == row.Nb_Actions
        montant_investi == row.Montant_FCFA
    IN  [Entreprise |-> row.Valeur,
         Signal |-> row.Signal,
         Score |-> row.Score,
         Prix_Achat |-> row.Prix,
         Nb_Actions |-> nb_actions,
         Montant_Investi |-> montant_investi,
         Stop_Loss |-> row.Stop_Loss,
         Take_Profit |-> row.Take_Profit,
         Gain_si_TP |-> (row.Take_Profit - row.Prix) * nb_actions,
         Perte_si_SL |-> (row.Prix - row.Stop_Loss) * nb_actions]

\* one pass of the loop over df_sim with capital_par_position = budget
position(row, budget) ==
    LET nb_actions == Tronquer(Div(budget, Num(row.Prix)))
        montant_investi == nb_actions * row.Prix
    IN  [Entreprise |-> row.Valeur,
         Signal |-> row.Signal,
         Score |-> row.Score,
         Prix_Achat |-> row.Prix,
         Nb_Actions |-> nb_actions,
         Montant_Investi |-> montant_investi,
         Stop_Loss |-> row.Stop_Loss,
         Take_Profit |-> row.Take_Profit,
         Gain_si_TP |-> (row.Take_Profit - row.Prix) * nb_actions,
         Perte_si_SL |-> (row.Prix - row.Stop_Loss) * nb_actions]

\* a total written with = where the code has +=: the last position's amount alone
Cumul_ecrase(portefeuille, champ, k) ==
    IF k = 0 THEN 0 ELSE portefeuille[k][champ]

RECURSIVE Cumul(_, _, _)
\* the running total of field `champ` over the first k positions
Cumul(portefeuille, champ, k) ==
    IF k = 0 THEN 0 ELSE portefeuille[k][champ] + Cumul(portefeuille, champ, k - 1)

PasRendu == [etat |-> "absent"]

\* the test with < where the code has ==: never true of a length
selection_vide_jamais(df_sim) == Len(df_sim) < 0

\* if len(df_sim) == 0
selection_vide(df_sim) == Len(df_sim) = 0

\* What tab4 computes from df_analysis, the chosen strategy and capital_simulation:
\* a warning when the selection is empty, the portfolio and its metrics otherwise.
simuler(df, strategie, capital_simulation) ==
    LET df_sim == selectionner(df, strategie)
        nb_positions == Len(df_sim)
        capital_par_position == Div(Num(capital_simulation), Num(nb_positions))
        portefeuille == [i \in 1..nb_positions |-> position(df_sim[i], capital_par_position)]
        capital_investi_total == Cumul(portefeuille, "Montant_Investi", nb_positions)
        gain_total_tp == Cumul(portefeuille, "Gain_si_TP", nb_positions)
        perte_totale_sl == Cumul(portefeuille, "Perte_si_SL", nb_positions)
        Pourcent(x, y) == Mul(Div(Num(x), Num(y)), Num(100))
    IN  IF selection_vide(df_sim)
        THEN [etat |-> "avertissement", strategie |-> strategie,
              capital_simulation |-> capital_simulation]
        ELSE [etat |-> "portefeuille", strategie |-> strategie,
              capital_simulation |-> capital_simulation,
              nb_positions |-> nb_positions,
              portefeuille |-> portefeuille,
              capital_investi_total |-> capital_investi_total,
              capital_restant |-> capital_simulation - capital_investi_total,
              taux_invest |-> Pourcent(capital_investi_total, capital_simulation),
              gain_total_tp |-> gain_total_tp,
              perte_totale_sl |-> perte_totale_sl,
              rendement_tp |-> Pourcent(gain_total_tp, capital_investi_total),
              rendement_sl |-> Pourcent(perte_totale_sl, capital_investi_total),
              ratio_rr |-> IF perte_totale_sl # 0
                           THEN Frac(Abs(gain_total_tp), Abs(perte_totale_sl))
                           ELSE Num(0)]

(***************************************************************************)
(* Direct calls of the pure helpers                                        *)
(***************************************************************************)
Aucun == [fonction |-> "aucune"]

\* the return value of a call: <<>> while it is pending, <<v>> once it returned v
EnAttente == <<>>

RsiEntrees == {NaN, Num(0), Num(29), Num(30), Num(39), Num(40), Num(49), Num(50), Num(100)}

MoyenneEntrees == {NaN, Num(100), Num(200)}

PrixEntrees == {Num(150), Num(250)}

VariationEntrees ==
    {NaN, PInf, Num(-6), Num(-5), Num(0), Num(1), Num(2), Num(3), Num(5), Num(6)}

ScoreEntrees == 0..10

\* the longest price series of a direct call of calculer_rsi
MaxLen == 4

PrixDirects == {1, 2, 4}

PeriodesDirectes == 1..3

\* every price series of at most MaxLen closes, the empty one included
SeriesDirectes == UNION { [1..k -> PrixDirects] : k \in 0..MaxLen }

AppelsEnAttente ==
    { [fonction |-> "calculer_score", args |-> <<rsi, mm20, mm50, prix, variation>>,
       retour |-> EnAttente] :
        rsi \in RsiEntrees, mm20 \in MoyenneEntrees, mm50 \in MoyenneEntrees,
        prix \in PrixEntrees, variation \in VariationEntrees }
    \cup
    { [fonction |-> "generer_signal", args |-> <<score>>, retour |-> EnAttente] :
        score \in ScoreEntrees }
    \cup
    { [fonction |-> "calculer_rsi", args |-> <<prices, period>>, retour |-> EnAttente] :
        prices \in SeriesDirectes, period \in PeriodesDirectes }

retour_de(a) ==
    IF a.fonction = "calculer_score"
    THEN calculer_score(a.args[1], a.args[2], a.args[3], a.args[4], a.args[5])
    ELSE IF a.fonction = "calculer_rsi"
    THEN calculer_rsi(a.args[1], a.args[2])
    ELSE generer_signal(a.args[1])

(***************************************************************************)
(* Initial states and steps                                                *)
(***************************************************************************)
CacheVide == [c \in Capitaux |-> PasRendu]

\* Either the application over some content of brvm_data/, before its first script
\* run, or one pending direct call of calculer_rsi, calculer_score or generer_signal.
Init ==
    /\ cache = CacheVide
    /\ capital = 20000000
    /\ df_analysis = PasRendu
    /\ tab4 = PasRendu
    /\ resultat_de = CacheVide
    /\ \/ appel = Aucun /\ brvm_data \in Dossiers
       \/ appel \in AppelsEnAttente /\ brvm_data = Telecharge(0)

\* uploaded_file.getbuffer() written to brvm_data/<name> for each file of the batch:
\* a file of the same name is overwritten, the other files stay
Enregistrer(dossier, fichiers) ==
    [f \in DOMAIN dossier \cup DOMAIN fichiers |->
        IF f \in DOMAIN fichiers THEN fichiers[f] ELSE dossier[f]]

AucunFichier == Telecharge(0)

\* st.rerun() without st.cache_data.clear() before it: the entry is still found
cache_lu_sans_vider(cap, bouton) == cache[cap]

\* the entry charger_donnees(cap) finds in the cache: none in the run that follows the
\* st.cache_data.clear() of "actualiser"
cache_lu(cap, bouton) == IF bouton = "actualiser" THEN PasRendu ELSE cache[cap]

\* The body of a script run with capital `cap`, in which the user has clicked `bouton`
\* of tab5 ("aucun" for a run started by another widget), the uploader holding
\* `fichiers`.  charger_donnees is served from the cache entry of `cap` when there is
\* one and computed (and, unless it raises, cached) otherwise; the tabs are reached
\* only with an analysis to show, tab4's widgets holding one of `strategies` and one of
\* `capitaux`, and only then does the handler of the button run: "sauvegarder" writes
\* the files, "vider" clears the cache, "actualiser" clears the cache and runs the
\* script once more, which computes charger_donnees afresh.
\* The code reads no clock and no random source, and numpy's quicksort, though not
\* stable, is a fixed algorithm: computing again what a run has computed before, on
\* the same files and capital, gives the same outcome, rows of equal key included.
Executer(cap, strategies, capitaux, bouton, fichiers) ==
    \E res \in (IF cache_lu(cap, bouton) # PasRendu THEN {cache_lu(cap, bouton)}
                ELSE IF resultat_de[cap] # PasRendu THEN {resultat_de[cap]}
                ELSE charger_donnees(brvm_data, cap)) :
        LET clic == IF cache[cap] # PasRendu THEN cache[cap].etat = "ok"
                    ELSE res.etat = "ok"
            cache_avant == IF clic /\ bouton = "actualiser" THEN CacheVide ELSE cache
        IN  /\ brvm_data' = IF clic /\ bouton = "sauvegarder"
                            THEN Enregistrer(brvm_data, fichiers)
                            ELSE brvm_data
            /\ resultat_de' = IF brvm_data' # brvm_data THEN CacheVide
                              ELSE IF cache_lu(cap, bouton) # PasRendu THEN resultat_de
                              ELSE [resultat_de EXCEPT ![cap] = res]
            /\ cache' = IF clic /\ bouton = "vider" THEN CacheVide
                        ELSE IF res.etat = "exception" THEN cache_avant
                        ELSE [cache_avant EXCEPT ![cap] = res]
            /\ capital' = cap
            /\ df_analysis' = res
            /\ IF res.etat = "ok"
               THEN \E strategie \in strategies, capital_simulation \in capitaux :
                        tab4' = simuler(res.lignes, strategie, capital_simulation)
               ELSE tab4' = PasRendu

\* one run of the app.py script, started by a change of the sidebar capital or of a
\* widget of tab4
ScriptRun ==
    /\ appel = Aucun
    /\ \E cap \in Capitaux : Executer(cap, Strategies, Capitaux, "aucun", AucunFichier)
    /\ UNCHANGED appel

\* The button "Actualiser l'analyse": the run that sees the click clears the cache and
\* calls st.rerun(), and the script runs again, the widgets as they are, on an empty cache.
Actualiser ==
    /\ appel = Aucun
    /\ df_analysis.etat = "ok"
    /\ Executer(capital, {tab4.strategie}, {tab4.capital_simulation}, "actualiser",
                AucunFichier)
    /\ UNCHANGED appel

\* The button "Vider tout le cache": the run that sees the click, the widgets as they
\* are, ends by clearing the caches; nothing is rerun.
ViderToutLeCache ==
    /\ appel = Aucun
    /\ df_analysis.etat = "ok"
    /\ Executer(capital, {tab4.strategie}, {tab4.capital_simulation}, "vider",
                AucunFichier)
    /\ UNCHANGED appel

\* the pending direct call returns
Appeler ==
    /\ appel # Aucun
    /\ appel.retour = EnAttente
    /\ appel' = [appel EXCEPT !.retour = <<retour_de(appel)>>]
    /\ UNCHANGED <<brvm_data, cache, capital, df_analysis, tab4, resultat_de>>

Next ==
    \/ ScriptRun
    \/ Actualiser
    \/ ViderToutLeCache
    \/ Appeler

Spec == Init /\ [][Next]_vars

(***************************************************************************)
(* The files of brvm_data/ change: recup.py, the upload of tab5, the TTL   *)
(***************************************************************************)
\* how many tickers of the list the quotes API answers for in a run of recup.py
NbRepondus == 1

\* how many days the API's quotes may lag behind the series of Marche
Retards == {0, 1}

\* data["QuoteTab"] for the i-th ticker: its series without the last `retard` days
QuoteTab(i, retard) ==
    LET rows == Lignes(Marche[i]) IN SubSeq(rows, 1, Len(rows) - retard)

RECURSIVE last_date(_, _)
\* df_old["d"].max(), over the first k rows of df_old
last_date(df_old, k) ==
    IF k = 1 THEN df_old[1].d ELSE Max(df_old[k].d, last_date(df_old, k - 1))

\* update_ticker: the file <ticker>.csv gets the rows of quotes that are newer than
\* its newest row; nothing is written when the API gave nothing (quotes = <<>>) or
\* nothing new
update_ticker(dossier, ticker, quotes) ==
    LET df_old == IF ticker \in DOMAIN dossier THEN dossier[ticker] ELSE <<>>
        dernier == last_date(df_old, Len(df_old))
        Nouvelle(r) == r.d > dernier
        df_new == IF df_old # <<>> THEN SelectSeq(quotes, Nouvelle) ELSE quotes
    IN  IF quotes = <<>> \/ df_new = <<>> THEN dossier
        ELSE Enregistrer(dossier, [f \in {ticker} |-> df_old \o df_new])

RECURSIVE main(_, _, _, _)
\* recup.py's main from the i-th ticker on, when the API answers for the first m
\* tickers with quotes `retard` days old: update_ticker for each of them in list
\* order; for the tickers after the m-th it returns before it writes (an error
\* status, or no QuoteTab in the answer)
main(dossier, i, m, retard) ==
    IF i > m THEN dossier
    ELSE main(update_ticker(dossier, TICKERS_BRVM_COMPLET[i], QuoteTab(i, retard)),
              i + 1, m, retard)

\* the batch of files the user selects in the uploader: BOAB.csv, the last two days
\* of BOAB's quotes under a second file name
Televersements ==
    {[fichier \in {<<"BOAB">>} |->
        SubSeq(QuoteTab(1, 0), Len(QuoteTab(1, 0)) - 1, Len(QuoteTab(1, 0)))]}

\* the button "Sauvegarder dans brvm_data/": the run that sees the click, the widgets
\* as they are, writes the selected files once it has reached tab5
Sauvegarder ==
    /\ appel = Aucun
    /\ df_analysis.etat = "ok"
    /\ \E fichiers \in Televersements :
           Executer(capital, {tab4.strategie}, {tab4.capital_simulation}, "sauvegarder",
                    fichiers)
    /\ UNCHANGED appel

\* a run of recup.py, outside the application
MettreAJour ==
    /\ appel = Aucun
    /\ \E retard \in Retards : brvm_data' = main(brvm_data, 1, NbRepondus, retard)
    /\ resultat_de' = IF brvm_data' # brvm_data THEN CacheVide ELSE resultat_de
    /\ UNCHANGED <<cache, capital, df_analysis, tab4, appel>>

\* an hour has passed since charger_donnees(cap) was cached (ttl=3600)
Expirer ==
    /\ appel = Aucun
    /\ \E cap \in Capitaux :
           /\ cache[cap] # PasRendu
           /\ cache' = [cache EXCEPT ![cap] = PasRendu]
    /\ UNCHANGED <<brvm_data, capital, df_analysis, tab4, appel, resultat_de>>

\* the application over what a first run of recup.py has downloaded, the run having
\* got through the first m tickers
InitDepots ==
    /\ cache = CacheVide
    /\ capital = 20000000
    /\ df_analysis = PasRendu
    /\ tab4 = PasRendu
    /\ resultat_de = CacheVide
    /\ appel = Aucun
    /\ brvm_data \in {main(AucunFichier, 1, m, 1) : m \in 0..NbRepondus}

NextDepots ==
    \/ ScriptRun
    \/ Actualiser
    \/ ViderToutLeCache
    \/ Sauvegarder
    \/ MettreAJour
    \/ Expirer

SpecDepots == InitDepots /\ [][NextDepots]_vars

(***************************************************************************)
(* Observations on the state: emitted records, plan positions, calls      *)
(***************************************************************************)
\* the records analyser emitted in the last script run: none when it raised
Emis == IF df_analysis.etat = "ok" THEN df_analysis.lignes ELSE <<>>

\* the script has called analyser (brvm_data/ held at least one file)
AnalyseFaite == df_analysis.etat \in {"ok", "exception"}

\* the instruments of brvm_data/ (one file each) and their series
Instruments == {ticker_de(f) : f \in DOMAIN brvm_data}

Serie(v) == brvm_data[CHOOSE f \in DOMAIN brvm_data : ticker_de(f) = v]

\* the positions of the plan tab4 built: none when it built no plan
Positions == IF tab4.etat = "portefeuille" THEN tab4.portefeuille ELSE <<>>

RECURSIVE Total(_, _, _)
\* the sum of field `champ` over the first k elements of seq
Total(seq, champ, k) == IF k = 0 THEN 0 ELSE Total(seq, champ, k - 1) + seq[k][champ]

\* the direct call of `fonction` has returned
Retourne(fonction) ==
    appel # Aucun /\ appel.fonction = fonction /\ appel.retour # EnAttente

\* how aggressive a category is
Rang(signal) ==
    CASE signal = "ACHAT FORT" -> 3
      [] signal = "ACHAT" -> 2
      [] signal = "SURVEILLER" -> 1
      [] OTHER -> 0

\* signal is the category the four score ranges give to score
EstCategorie(signal, score) ==
    /\ signal \in {"ACHAT FORT", "ACHAT", "SURVEILLER", "ATTENTE"}
    /\ signal = "ACHAT FORT" <=> score >= 7
    /\ signal = "ACHAT" <=> (5 <= score /\ score <= 6)
    /\ signal = "SURVEILLER" <=> (3 <= score /\ score <= 4)
    /\ signal = "ATTENTE" <=> score <= 2

\* the records the strategy of tab4 selects from the last analysis
NbSelection ==
    Cardinality({ i \in DOMAIN Emis :
        IF tab4.strategie = "Seulement ACHAT FORT" THEN Emis[i].Score >= 7
        ELSE IF tab4.strategie = "ACHAT FORT + ACHAT" THEN Emis[i].Score >= 5
        ELSE Emis[i].Score >= 3 })

(***************************************************************************)
(* C1                                                                      *)
(***************************************************************************)
\* C1: every record analyser returns has an integer Score with 0 <= Score <= 10, and
\* every call of calculer_score returns a value in 0..10, whichever of rsi, mm20,
\* mm50 and variation are NaN.
C1_ScoreDansBornes ==
    /\ \A i \in DOMAIN Emis : Emis[i].Score \in 0..10
    /\ Retourne("calculer_score") => appel.retour[1] \in 0..10

\* a call whose three rules had nothing to add but the -1 of a fall beyond 5 %, with
\* both moving averages NaN, has returned 0
C1_Temoin ==
    /\ Retourne("calculer_score")
    /\ appel.args[1] = Num(100) /\ appel.args[2] = NaN /\ appel.args[3] = NaN
    /\ appel.args[5] = Num(-6)
    /\ appel.retour = <<0>>

(***************************************************************************)
(* C2                                                                      *)
(***************************************************************************)
\* C2: for every score in 0..10 generer_signal returns exactly one of the four
\* categories, ACHAT FORT iff score >= 7, ACHAT iff 5 <= score <= 6, SURVEILLER iff
\* 3 <= score <= 4, ATTENTE iff score <= 2; a higher score never has a less
\* aggressive category; and the Signal of every record is the category of its Score.
C2_SignalSelonScore ==
    /\ Retourne("generer_signal") => EstCategorie(appel.retour[1], appel.args[1])
    /\ \A i \in DOMAIN Emis : EstCategorie(Emis[i].Signal, Emis[i].Score)
    /\ \A i, j \in DOMAIN Emis :
           Emis[i].Score >= Emis[j].Score => Rang(Emis[i].Signal) >= Rang(Emis[j].Signal)

\* one analysis whose records show all four categories, at the scores 7, 5, 3 and 2
C2_Temoin ==
    /\ \E i \in DOMAIN Emis : Emis[i].Score = 7 /\ Emis[i].Signal = "ACHAT FORT"
    /\ \E i \in DOMAIN Emis : Emis[i].Score = 5 /\ Emis[i].Signal = "ACHAT"
    /\ \E i \in DOMAIN Emis : Emis[i].Score = 3 /\ Emis[i].Signal = "SURVEILLER"
    /\ \E i \in DOMAIN Emis : Emis[i].Score = 2 /\ Emis[i].Signal = "ATTENTE"

(***************************************************************************)
(* C3                                                                      *)
(***************************************************************************)
\* C3: analyser emits exactly one record for each instrument whose series has at
\* least 50 observations and no record for an instrument whose series has fewer.
C3_UnParInstrument ==
    AnalyseFaite =>
        \A v \in Instruments :
            Cardinality({i \in DOMAIN Emis : Emis[i].Valeur = v})
                = (IF Len(Serie(v)) >= 50 THEN 1 ELSE 0)

(***************************************************************************)
(* C4                                                                      *)
(***************************************************************************)
\* C4: with a positive budget and a positive price the position sizer gives
\* shareCount = floor(budget / price), a non-negative integer, and investedAmount =
\* shareCount * price <= budget, in the analyser (budget = 10 % of the capital) and
\* in the simulator (budget = capital / N); equal (budget, price) give equal results.
C4_TailleDePosition ==
    /\ \A i \in DOMAIN Emis :
           LET r == Emis[i] IN
               r.Prix > 0 =>
                   /\ r.Nb_Actions \in Nat
                   /\ r.Nb_Actions * r.Prix * 100 <= capital * POSITION_SIZE_PCT
                   /\ capital * POSITION_SIZE_PCT < (r.Nb_Actions + 1) * r.Prix * 100
                   /\ r.Montant_FCFA = r.Nb_Actions * r.Prix
    /\ \A i \in DOMAIN Positions :
           LET p == Positions[i]
               N == Len(Positions)
           IN  p.Prix_Achat > 0 =>
                   /\ p.Nb_Actions \in Nat
                   /\ p.Nb_Actions * p.Prix_Achat * N <= tab4.capital_simulation
                   /\ tab4.capital_simulation < (p.Nb_Actions + 1) * p.Prix_Achat * N
                   /\ p.Montant_Investi = p.Nb_Actions * p.Prix_Achat
    /\ \A i, j \in DOMAIN Emis :
           Emis[i].Prix = Emis[j].Prix =>
               /\ Emis[i].Nb_Actions = Emis[j].Nb_Actions
               /\ Emis[i].Montant_FCFA = Emis[j].Montant_FCFA
    /\ \A i, j \in DOMAIN Positions :
           Positions[i].Prix_Achat = Positions[j].Prix_Achat =>
               /\ Positions[i].Nb_Actions = Positions[j].Nb_Actions
               /\ Positions[i].Montant_Investi = Positions[j].Montant_Investi

\* a plan whose budget capital / N is no whole number, two of its positions at the
\* same price, and a record whose budget its price does not divide
C4_Temoin ==
    /\ Len(Positions) >= 3
    /\ tab4.capital_simulation % Len(Positions) # 0
    /\ \E i, j \in DOMAIN Positions :
           i # j /\ Positions[i].Prix_Achat = Positions[j].Prix_Achat
    /\ \E i \in DOMAIN Positions : Positions[i].Nb_Actions > 0
    /\ \E i \in DOMAIN Emis :
           /\ Emis[i].Nb_Actions > 0
           /\ Emis[i].Montant_FCFA * 100 < capital * POSITION_SIZE_PCT

(***************************************************************************)
(* C5                                                                      *)
(***************************************************************************)
\* C5 as stated: whatever the number of instruments analysed, the sum of
\* Montant_FCFA over the emitted records never exceeds the analyser's capital.
C5_SommeSousCapital == Total(Emis, "Montant_FCFA", Len(Emis)) <= capital

\* C5 as amended: every record's Montant_FCFA is at most 10 % of the analyser's
\* capital, and the sum over the records is within the capital whenever at most 10
\* records are emitted.
C5_DixPourcentParRecord ==
    /\ \A i \in DOMAIN Emis : Emis[i].Montant_FCFA * 100 <= capital * POSITION_SIZE_PCT
    /\ Len(Emis) * POSITION_SIZE_PCT <= 100 => Total(Emis, "Montant_FCFA", Len(Emis)) <= capital

\* eleven records, each within its 10 %, whose amounts add up to more than the capital
C5_Temoin ==
    /\ Len(Emis) = 11
    /\ \A i \in DOMAIN Emis : Emis[i].Montant_FCFA > 0
    /\ Total(Emis, "Montant_FCFA", Len(Emis)) > capital

(***************************************************************************)
(* C6                                                                      *)
(***************************************************************************)
\* C6: for a plan the simulator builds from a non-empty selection, the sum of the
\* positions' invested amounts plus capital_restant equals the simulation capital,
\* and 0 <= capital_restant <= simulation capital.
C6_Conservation ==
    tab4.etat = "portefeuille" =>
        /\ Total(Positions, "Montant_Investi", Len(Positions)) + tab4.capital_restant
               = tab4.capital_simulation
        /\ 0 <= tab4.capital_restant
        /\ tab4.capital_restant <= tab4.capital_simulation

\* a plan of several positions that leaves some cash idle
C6_Temoin ==
    /\ tab4.etat = "portefeuille"
    /\ Len(Positions) >= 4
    /\ \A i \in DOMAIN Positions : Positions[i].Montant_Investi > 0
    /\ tab4.capital_restant > 0

(***************************************************************************)
(* C7                                                                      *)
(***************************************************************************)
\* C7: for every record made from a positive latest price with -5 % and +10 %, the
\* recorded values satisfy Stop_Loss < Prix < Take_Profit strictly.
C7_StopSousPrixSousObjectif ==
    \A i \in DOMAIN Emis :
        Emis[i].Prix > 0 =>
            Emis[i].Stop_Loss < Emis[i].Prix /\ Emis[i].Prix < Emis[i].Take_Profit

(***************************************************************************)
(* C8                                                                      *)
(***************************************************************************)
RECURSIVE DateMax(_, _)
\* the latest date among the first k rows of a series
DateMax(rows, k) == IF k = 1 THEN rows[1].d ELSE Max(rows[k].d, DateMax(rows, k - 1))

\* C8: in every record Stop_Loss = round(price * 0.95), Take_Profit = round(price *
\* 1.10) and Trailing_Stop = round(price * 0.97), price being the close of the
\* chronologically latest row of the instrument's series (round as Python rounds:
\* a half goes to the even neighbour).
C8_NiveauxArrondis ==
    \A i \in DOMAIN Emis :
        LET r == Emis[i]
            rows == Serie(r.Valeur)
            dernier == DateMax(rows, Len(rows))
        IN  /\ \E k \in DOMAIN rows : rows[k].d = dernier /\ rows[k].c = r.Prix
            /\ r.Stop_Loss = RoundHalfEven(r.Prix * 95, 100)
            /\ r.Take_Profit = RoundHalfEven(r.Prix * 110, 100)
            /\ r.Trailing_Stop = RoundHalfEven(r.Prix * 97, 100)

\* a file written newest row first whose latest close is 190: the record's price is the
\* close of the file's first row, and its stop-loss the half 180.5 rounded to 180
C8_Temoin ==
    /\ Len(Emis) = 1
    /\ LET rows == Serie(Emis[1].Valeur)
       IN  /\ rows[1].d = DateMax(rows, Len(rows))
           /\ rows[1].c = 190
           /\ rows[Len(rows)].c # 190
    /\ Emis[1].Prix = 190
    /\ Emis[1].Stop_Loss = 180
    /\ Emis[1].Take_Profit = 209
    /\ Emis[1].Trailing_Stop = 184

(***************************************************************************)
(* C9                                                                      *)
(***************************************************************************)
\* C9: the collection analyser returns is ordered by Score descending: of two
\* consecutive records the earlier one's Score is >= the later one's.
C9_ScoreDecroissant ==
    \A i \in DOMAIN Emis : i < Len(Emis) => Emis[i].Score >= Emis[i + 1].Score

\* a collection of at least five records that runs from a score of 9 down to 0
C9_Temoin ==
    /\ Len(Emis) >= 5
    /\ Emis[1].Score = 9
    /\ Emis[Len(Emis)].Score = 0

(***************************************************************************)
(* C10                                                                     *)
(***************************************************************************)
\* the strategy chosen in tab4 selects none of the records of the analysis
SelectionVide == df_analysis.etat = "ok" /\ tab4 # PasRendu /\ NbSelection = 0

ToutesCourtes == Instruments # {} /\ \A v \in Instruments : Len(Serie(v)) < 50

\* C11: when every instrument of the input has fewer than 50 observations,
\* analyser terminates normally and returns an empty collection of records.
C11_CourtesSansFaute ==
    (AnalyseFaite /\ ToutesCourtes) =>
        (df_analysis.etat = "ok" /\ df_analysis.lignes = <<>>)

(***************************************************************************)
(* C12                                                                     *)
(***************************************************************************)
\* every row of the latest date of v's series has a close <= 0
DernierCoursNonPositif(v) ==
    LET rows == Serie(v)
        dernier == DateMax(rows, Len(rows))
    IN  \A k \in DOMAIN rows : rows[k].d = dernier => rows[k].c <= 0

\* C12: with a price <= 0 the position sizing gives shareCount = 0 and
\* investedAmount = 0 and neither raises nor divides by zero, in the analyser (an
\* instrument with enough observations gets its record, with 0 shares) and in the
\* portfolio simulator.
C12_PrixNonPositif ==
    /\ AnalyseFaite =>
           \A v \in Instruments :
               (Len(Serie(v)) >= 50 /\ DernierCoursNonPositif(v)) =>
                   \E i \in DOMAIN Emis :
                       /\ Emis[i].Valeur = v
                       /\ Emis[i].Nb_Actions = 0
                       /\ Emis[i].Montant_FCFA = 0
    /\ \A i \in DOMAIN Positions :
           Positions[i].Prix_Achat <= 0 =>
               Positions[i].Nb_Actions = 0 /\ Positions[i].Montant_Investi = 0

(***************************************************************************)
(* C13                                                                     *)
(***************************************************************************)
\* record r is one the strategy is to take
Voulu(strategie, r) ==
    IF strategie = "Seulement ACHAT FORT" THEN r.Signal = "ACHAT FORT"
    ELSE IF strategie = "ACHAT FORT + ACHAT" THEN r.Signal \in {"ACHAT FORT", "ACHAT"}
    ELSE r.Score >= 3

\* C13: from the ranked records and in their order, the three strategies select
\* exactly (1) the strong buys, (2) the strong buys and the buys, (3) the records
\* with Score >= 3; so (1) is within (2), (2) within (3), and no record whose signal
\* is ATTENTE is ever selected.
C13_Filtres ==
    (df_analysis.etat = "ok" /\ tab4 # PasRendu) =>
        LET Pris(r) == Voulu(tab4.strategie, r)
            attendu == SelectSeq(Emis, Pris)
        IN  /\ Len(Positions) = Len(attendu)
            /\ \A i \in DOMAIN Positions :
                   /\ Positions[i].Entreprise = attendu[i].Valeur
                   /\ Positions[i].Signal = attendu[i].Signal
                   /\ Positions[i].Score = attendu[i].Score
                   /\ Positions[i].Signal # "ATTENTE"
            /\ \A i \in DOMAIN Emis :
                   /\ Voulu("Seulement ACHAT FORT", Emis[i])
                          => Voulu("ACHAT FORT + ACHAT", Emis[i])
                   /\ Voulu("ACHAT FORT + ACHAT", Emis[i])
                          => Voulu("Tous signaux positifs", Emis[i])

\* the second strategy applied to records of all four categories: it took strong buys
\* and buys, and left records out
C13_Temoin ==
    /\ tab4.etat = "portefeuille"
    /\ tab4.strategie = "ACHAT FORT + ACHAT"
    /\ \E i \in DOMAIN Positions : Positions[i].Signal = "ACHAT FORT"
    /\ \E i \in DOMAIN Positions : Positions[i].Signal = "ACHAT"
    /\ \E i \in DOMAIN Emis : Emis[i].Signal = "SURVEILLER"
    /\ \E i \in DOMAIN Emis : Emis[i].Signal = "ATTENTE"
    /\ Len(Positions) < Len(Emis)

(***************************************************************************)
(* C14                                                                     *)
(***************************************************************************)
\* the RSI of v's latest row is unavailable (NaN): its series, read in date order,
\* has neither a gain nor a loss over the last 14 changes
RsiIndisponible(v) ==
    LET rows == Serie(v)
        closes == [k \in 1..Len(rows) |-> rows[k].c]
    IN  /\ Croissant(rows, TRUE)
        /\ calculer_rsi(closes, RSI_PERIOD)[Len(rows)] = NaN

\* C14: an indicator that is unavailable for an instrument is represented in its
\* record by a sentinel distinguishable from the number 0; it is never stored as zero.
C14_SentinelleDistincte ==
    \A i \in DOMAIN Emis : RsiIndisponible(Emis[i].Valeur) => Emis[i].RSI # 0

(***************************************************************************)
(* C16                                                                     *)
(***************************************************************************)
\* x > y for two values that are not NaN and not both infinite
Sup(x, y) == x[1] * y[2] > y[1] * x[2]

Borne(k) == IF k < 0 THEN 0 ELSE IF k > 10 THEN 10 ELSE k

\* the points of the rule table
PointsRsi(rsi) ==
    CASE Sup(Num(30), rsi) -> 3
      [] ~Sup(Num(30), rsi) /\ Sup(Num(40), rsi) -> 2
      [] ~Sup(Num(40), rsi) /\ Sup(Num(50), rsi) -> 1
      [] OTHER -> 0

PointsTendance(mm20, mm50) == IF Sup(mm20, mm50) THEN 2 ELSE 0

PointsPrix(prix, mm20) == IF Sup(prix, mm20) THEN 1 ELSE 0

PointsRendement(variation) ==
    CASE Sup(variation, Num(5)) -> 3
      [] Sup(variation, Num(2)) /\ ~Sup(variation, Num(5)) -> 2
      [] Sup(variation, Num(0)) /\ ~Sup(variation, Num(2)) -> 1
      [] Sup(Num(-5), variation) -> -1
      [] OTHER -> 0

\* the direct call of calculer_score has returned and all its inputs are available
TousDisponibles ==
    Retourne("calculer_score") /\ \A k \in 1..5 : appel.args[k] # NaN

\* C16: when RSI, MM20, MM50, price and return are all available, calculer_score
\* equals clamp to [0,10] of r + m + p + v, with r = 3 if RSI < 30, 2 if 30 <= RSI <
\* 40, 1 if 40 <= RSI < 50, else 0; m = 2 if MM20 > MM50 else 0; p = 1 if price >
\* MM20 else 0; v = 3 if return > 5, 2 if 2 < return <= 5, 1 if 0 < return <= 2,
\* -1 if return < -5, else 0.
C16_TableDesRegles ==
    TousDisponibles =>
        appel.retour[1] =
            Borne(PointsRsi(appel.args[1])
                  + PointsTendance(appel.args[2], appel.args[3])
                  + PointsPrix(appel.args[4], appel.args[2])
                  + PointsRendement(appel.args[5]))

\* a call at the edge of a tier (RSI exactly 30, return exactly 5) with both
\* moving-average rules met: 2 + 2 + 1 + 2
C16_Temoin ==
    /\ TousDisponibles
    /\ appel.args = <<Num(30), Num(200), Num(100), Num(250), Num(5)>>
    /\ appel.retour = <<7>>

(***************************************************************************)
(* C17                                                                     *)
(***************************************************************************)
\* C17: in calculer_score any input may be unavailable; an unavailable input makes
\* exactly the rules that read it contribute 0 points, and every rule whose own
\* inputs are all available contributes its table points whatever the other inputs
\* (price > MM20 reads only price and MM20, MM20 > MM50 only MM20 and MM50).
C17_ReglesIndependantes ==
    Retourne("calculer_score") =>
        LET rsi == appel.args[1]
            mm20 == appel.args[2]
            mm50 == appel.args[3]
            prix == appel.args[4]
            variation == appel.args[5]
        IN  appel.retour[1] =
                Borne((IF rsi # NaN THEN PointsRsi(rsi) ELSE 0)
                      + (IF mm20 # NaN /\ mm50 # NaN THEN PointsTendance(mm20, mm50) ELSE 0)
                      + (IF prix # NaN /\ mm20 # NaN THEN PointsPrix(prix, mm20) ELSE 0)
                      + (IF variation # NaN THEN PointsRendement(variation) ELSE 0))

(***************************************************************************)
(* C18                                                                     *)
(***************************************************************************)
\* the rank at which the loop over df['Valeur'].unique() meets instrument v: the
\* merged frame is sorted by Valeur, so the instruments come in alphabetical order
Rencontre(v) == CHOOSE k \in 1..Len(ORDRE_ALPHA) : ORDRE_ALPHA[k] = v

\* C18: in analyser's output, records of equal Score appear in the order in which
\* their instruments were met during the analysis (the sort by score is stable).
C18_TriStable ==
    \A i, j \in DOMAIN Emis :
        (i < j /\ Emis[i].Score = Emis[j].Score) =>
            Rencontre(Emis[i].Valeur) < Rencontre(Emis[j].Valeur)

(***************************************************************************)
(* C19                                                                     *)
(***************************************************************************)
\* C19: in every record, potential gain = (take-profit - P) * shareCount and
\* potential loss = (P - stop-loss) * shareCount, with take-profit = 1.10 P and
\* stop-loss = 0.95 P as computed and the products rounded to the franc as the
\* record stores them; the ratio is |gain / loss| (to 2 decimals) when loss # 0 and
\* exactly 0 when loss = 0, in particular when shareCount = 0; it is never NaN or
\* infinite.
C19_GainPerteRatio ==
    \A i \in DOMAIN Emis :
        LET r == Emis[i]
            gain_exact == Frac(r.Prix * TAKE_PROFIT_PCT * r.Nb_Actions, 100)
            perte_exacte == Frac(r.Prix * (-STOP_LOSS_PCT) * r.Nb_Actions, 100)
            quotient == Div(gain_exact, perte_exacte)
        IN  /\ r.Gain_Potentiel = RoundHalfEven(gain_exact[1], gain_exact[2])
            /\ r.Perte_Potentielle = RoundHalfEven(perte_exacte[1], perte_exacte[2])
            /\ r.Ratio_RR[2] = 100
            /\ perte_exacte # Num(0) =>
                   r.Ratio_RR[1] = RoundHalfEven(Abs(quotient[1]) * 100, quotient[2])
            /\ perte_exacte = Num(0) => r.Ratio_RR[1] = 0

\* one analysis with a record of 0 shares (its price is above the budget), whose
\* gain, loss and ratio are 0, and a record whose gain is not a whole number of
\* francs before rounding, with ratio 2.00
C19_Temoin ==
    /\ \E i \in DOMAIN Emis :
           /\ Emis[i].Nb_Actions = 0
           /\ Emis[i].Gain_Potentiel = 0
           /\ Emis[i].Perte_Potentielle = 0
           /\ Emis[i].Ratio_RR = <<0, 100>>
    /\ \E i \in DOMAIN Emis :
           /\ Emis[i].Nb_Actions > 0
           /\ (Emis[i].Prix * TAKE_PROFIT_PCT * Emis[i].Nb_Actions) % 100 # 0
           /\ Emis[i].Ratio_RR = <<200, 100>>

(***************************************************************************)
(* C20                                                                     *)
(***************************************************************************)
\* C20: the simulator sizes each of the N selected records itself, with the budget
\* capital_simulation / N: shareCount = floor((capital_simulation / N) / price) and
\* invested = shareCount * price, whatever Nb_Actions and Montant_FCFA the analyser
\* stored in the record.  With 20,000,000 over 4 positions the budget is 5,000,000; a
\* position bought at 1,250,000 holds 4 shares, invests 5,000,000 and leaves nothing
\* of its slot idle.
C20_TailleRecalculee ==
    \A i \in DOMAIN Positions :
        LET p == Positions[i]
            N == Len(Positions)
        IN  /\ p.Nb_Actions = tab4.capital_simulation \div (N * p.Prix_Achat)
            /\ p.Montant_Investi = p.Nb_Actions * p.Prix_Achat
            /\ (tab4.capital_simulation = 20000000 /\ N = 4 /\ p.Prix_Achat = 1250000) =>
                   /\ p.Nb_Actions = 4
                   /\ p.Montant_Investi = 5000000
                   /\ tab4.capital_simulation - N * p.Montant_Investi = 0

\* the plan of the example: 20,000,000 over 4 positions, one of them bought at
\* 1,250,000, for which the analyser's record holds another number of shares
C20_Temoin ==
    /\ tab4.etat = "portefeuille"
    /\ tab4.capital_simulation = 20000000
    /\ Len(Positions) = 4
    /\ \E i \in DOMAIN Positions :
           /\ Positions[i].Prix_Achat = 1250000
           /\ Positions[i].Nb_Actions = 4
           /\ Positions[i].Montant_Investi = 5000000
           /\ \E k \in DOMAIN Emis :
                  /\ Emis[k].Valeur = Positions[i].Entreprise
                  /\ Emis[k].Nb_Actions # Positions[i].Nb_Actions
                  /\ Emis[k].Montant_FCFA # Positions[i].Montant_Investi

(***************************************************************************)
(* C21                                                                     *)
(***************************************************************************)
\* the closes of instrument v in chronological order
Clotures(v) ==
    LET rows == TriStableParDate(Serie(v)) IN [i \in 1..Len(rows) |-> rows[i].c]

\* the dates of instrument v's rows are pairwise different
DatesDistinctes(v) == Croissant(TriStableParDate(Serie(v)), TRUE)

\* C21: the return stored in a record (Var_14j_%) is the 14-period return,
\* 100 * (latest close - close 14 observations before the latest) / (close 14
\* observations before the latest), to 2 decimals.
C21_RendementQuatorze ==
    \A i \in DOMAIN Emis :
        LET v == Emis[i].Valeur
            c == Clotures(v)
            n == Len(c)
        IN  DatesDistinctes(v) =>
                Emis[i].Var_14j =
                    Round(Mul(Div(Num(c[n] - c[n - 14]), Num(c[n - 14])), Num(100)), 100)

(***************************************************************************)
(* C22                                                                     *)
(***************************************************************************)
\* the last RSI_PERIOD price changes of instrument v are all strictly negative
BaissePure(v) ==
    LET c == Clotures(v)
        n == Len(c)
    IN  \A i \in (n - RSI_PERIOD + 1)..n : c[i] < c[i - 1]

\* the mean of the last k closes of c
MoyenneDesDerniers(c, k) == Frac(Somme(c, Len(c) - k + 1, Len(c)), k)

\* what the three rules other than the RSI tier give instrument v: trend, price
\* against MM20, and the return analyser computes
PointsHorsRsi(v) ==
    LET c == Clotures(v)
        n == Len(c)
        mm20 == MoyenneDesDerniers(c, MM_COURT)
        mm50 == MoyenneDesDerniers(c, MM_LONG)
        variation == Mul(Div(Num(c[n] - c[n + 1 - VAR_JOURS]), Num(c[n + 1 - VAR_JOURS])),
                         Num(100))
    IN  PointsTendance(mm20, mm50) + PointsPrix(Num(c[n]), mm20)
            + PointsRendement(variation)

\* C22: for a series of at least 50 closes whose last 14 price changes are all
\* strictly negative, the latest RSI(14) is 0 and counts as available: the record
\* holds RSI 0.0 and its Score contains the +3 of the lowest RSI tier.
C22_BaissePure ==
    \A i \in DOMAIN Emis :
        (DatesDistinctes(Emis[i].Valeur) /\ BaissePure(Emis[i].Valeur)) =>
            /\ Emis[i].RSI = 0
            /\ Emis[i].Score = Borne(3 + PointsHorsRsi(Emis[i].Valeur))

\* a record of a series falling at each of its last 14 changes, to which the three
\* other rules give nothing: its score of 3 is the RSI tier alone
C22_Temoin ==
    \E i \in DOMAIN Emis :
        /\ DatesDistinctes(Emis[i].Valeur)
        /\ BaissePure(Emis[i].Valeur)
        /\ Emis[i].RSI = 0
        /\ PointsHorsRsi(Emis[i].Valeur) = 0
        /\ Emis[i].Score = 3

(***************************************************************************)
(* C23                                                                     *)
(***************************************************************************)
RECURSIVE Ampleur(_, _, _, _)
\* the sum, over the price changes at positions a..b, of the rises (sens = 1) or of
\* the magnitudes of the falls (sens = -1)
Ampleur(prices, a, b, sens) ==
    IF a > b THEN 0
    ELSE LET d == (prices[b] - prices[b - 1]) * sens
         IN  (IF d > 0 THEN d ELSE 0) + Ampleur(prices, a, b - 1, sens)

\* 100 - 100 / (1 + avg_gain / avg_loss) for the simple means avg_gain = g / period
\* and avg_loss = l / period, evaluated in floating point: the divisor `period`
\* cancels, leaving 100 g / (g + l) when l > 0, 100 when only l is 0 (the quotient
\* is infinite), and no number when g and l are both 0 (the quotient is 0 / 0)
FormuleRsi(g, l) ==
    IF l > 0 THEN Frac(100 * g, g + l)
    ELSE IF g > 0 THEN Num(100)
    ELSE NaN

\* C23: calculer_rsi(prices, period) returns one value per observation; the first
\* `period` values are undefined (NaN), and every later position i holds
\* 100 - 100 / (1 + avg_gain / avg_loss) for the simple means of the rises and of the
\* fall magnitudes of the `period` price changes ending at i.
C23_UneValeurParObservation ==
    Retourne("calculer_rsi") =>
        LET prices == appel.args[1]
            period == appel.args[2]
            rsi == appel.retour[1]
        IN  /\ DOMAIN rsi = DOMAIN prices
            /\ \A i \in DOMAIN prices :
                   IF i <= period THEN rsi[i] = NaN
                   ELSE rsi[i] = FormuleRsi(Ampleur(prices, i - period + 1, i, 1),
                                            Ampleur(prices, i - period + 1, i, -1))

\* a returned call on a series longer than period + 1 whose last window holds a rise
\* and a fall, so that its last value is none of NaN, 0 and 100
C23_Temoin ==
    /\ Retourne("calculer_rsi")
    /\ Len(appel.args[1]) > appel.args[2] + 1
    /\ appel.args[2] > 1
    /\ appel.retour[1][appel.args[2]] = NaN
    /\ appel.retour[1][Len(appel.args[1])] \notin {NaN, Num(0), Num(100)}

(***************************************************************************)
(* C24                                                                     *)
(***************************************************************************)
\* none of the last RSI_PERIOD price changes of instrument v is a fall: the average
\* loss over the RSI window is zero
SansBaisse(v) ==
    LET c == Clotures(v)
        n == Len(c)
    IN  \A i \in (n - RSI_PERIOD + 1)..n : c[i] >= c[i - 1]

\* C24: when the average loss over the RSI window of an analysed instrument is
\* zero, the analyser terminates normally and the instrument's record holds a defined
\* RSI (0.0 for a flat window, 100.0 otherwise), a Score in 0..10 that is the sum of
\* the three other rules, and the signal of that score.
C24_PerteMoyenneNulle ==
    \A v \in Instruments :
        (/\ AnalyseFaite
         /\ DatesDistinctes(v)
         /\ Len(Serie(v)) >= MIN_POINTS
         /\ SansBaisse(v)) =>
            /\ df_analysis.etat = "ok"
            /\ \E i \in DOMAIN Emis :
                   /\ Emis[i].Valeur = v
                   /\ Emis[i].RSI \in {0, 1000}
                   /\ Emis[i].Score = Borne(PointsHorsRsi(v))
                   /\ EstCategorie(Emis[i].Signal, Emis[i].Score)

(***************************************************************************)
(* C26                                                                     *)
(***************************************************************************)
\* the series load_brvm_data hands to the analyser, one per instrument identifier
SeriesChargees ==
    LET df == load_brvm_data(brvm_data)
    IN  IF df = None THEN {} ELSE {df.groupes[i].lignes : i \in DOMAIN df.groupes}

\* C26: after any sequence of runs of recup.py and of uploads saved into brvm_data/,
\* the series load_brvm_data hands to the analyser for each instrument identifier is
\* chronologically sorted and holds no two rows of the same date.
C26_SeriesSansDoublon == \A rows \in SeriesChargees : Croissant(rows, TRUE)

(***************************************************************************)
(* C27                                                                     *)
(***************************************************************************)
\* C27: the run of "Actualiser l'analyse" shows an analysis computed from the files
\* that are in brvm_data/ at that moment, uploads saved before it included.  Every
\* other script run that finds a cached result for its capital shows that result,
\* whatever has been written to brvm_data/ since it was computed, and a cached result
\* goes or changes only by a cache clear ("Actualiser", "Vider tout le cache") or by
\* the expiry of its TTL.  (A call that raises returns no result and caches none.)
C27_CachePuisDisque ==
    [][ /\ (/\ brvm_data' = brvm_data
            /\ capital' = capital
            /\ cache' \in {CacheVide, [CacheVide EXCEPT ![capital] = df_analysis']}
            /\ Actualiser) => df_analysis' \in charger_donnees(brvm_data', capital')
        /\ cache[capital'] # PasRendu /\ df_analysis' # cache[capital']
              => ~(ScriptRun \/ Sauvegarder \/ ViderToutLeCache)
        /\ \A cap \in Capitaux :
              cache[cap] # PasRendu /\ cache'[cap] # cache[cap]
                 => Expirer \/ ViderToutLeCache \/ Actualiser ]_vars

\* a script run after the files have changed has shown the cached analysis of its
\* capital, which is no longer what the files on disk give: since the last write to
\* brvm_data/ the analysis of another capital was computed, and the latest run, with
\* this capital, was served from the cache
C27_Temoin ==
    /\ df_analysis.etat = "ok"
    /\ cache[capital] = df_analysis
    /\ resultat_de[capital] = PasRendu
    /\ \E autre \in Capitaux \ {capital} : resultat_de[autre] # PasRendu
    /\ df_analysis \notin charger_donnees(brvm_data, capital)

(***************************************************************************)
(* C28                                                                     *)
(***************************************************************************)
\* what the rules of calculer_score add up to for the arguments a, before the clamp
SommeDesRegles(a) == RsiPoints(a[1]) + MMPoints(a[2], a[3], a[4]) + VariationPoints(a[5])

PlanAvecActions == \E i \in DOMAIN Positions : Positions[i].Nb_Actions >= 1

\* C29: for every position of the plan the simulator's Gain_si_TP and Perte_si_SL are
\* what the analyser's risk rules give for the same price and number of shares, 10 %
\* and 5 % of the invested amount, so that the blended ratio of a plan that holds at
\* least one share is exactly 2.
C29_GainPerteDuPlan ==
    /\ \A i \in DOMAIN Positions :
           /\ 100 * Positions[i].Gain_si_TP = TAKE_PROFIT_PCT * Positions[i].Montant_Investi
           /\ 100 * Positions[i].Perte_si_SL = (-STOP_LOSS_PCT) * Positions[i].Montant_Investi
    /\ PlanAvecActions => tab4.ratio_rr[2] # 0 /\ tab4.ratio_rr[1] = 2 * tab4.ratio_rr[2]

(***************************************************************************)
(* C30                                                                     *)
(***************************************************************************)
\* the RSI analyser passed to calculer_score for instrument v: the last value of
\* calculer_rsi over its closes
RsiActuel(v) == calculer_rsi(Clotures(v), RSI_PERIOD)[Len(Clotures(v))]

Cite(explications, mots) == \E k \in DOMAIN explications : explications[k] = mots

====
